---- MODULE Spec2Model ----
(***************************************************************************)
(* State-machine model of the stock-price fetcher:                         *)
(*   src/src/app/data_fetcher.py        DataFetcher (the orchestrator)     *)
(*   src/src/data_sources/yahoo_yfinance.py  YFinanceDataSource (provider) *)
(*   src/src/data_sources/yahoo_html.py      YahooHTMLScraper (scraper)    *)
(*   src/src/llm/scraping_assistant.py       ScrapingAssistant (assistant) *)
(*                                                                         *)
(* One step of the model is one leaf call of DataFetcher.get_quote         *)
(* together with the orchestrator code around it.  What the network, the   *)
(* page and the LLM answer is chosen by \E from small sets.                 *)
(*                                                                         *)
(*   src/src/llm/gemini_client.py            GeminiClient                  *)
(*   src/src/app/api.py                      the REST endpoints            *)
(*   src/src/core/models.py                  Quote                         *)
(*                                                                         *)
(* Time is the variable now, in ticks.  Spec and SpecBatch do not advance  *)
(* it; the specifications about timing do (SpecLeaf with Tick, SpecRepeat  *)
(* between two calls).  latency_ms is not part of the model.               *)
(***************************************************************************)
EXTENDS Integers, Sequences, FiniteSets, TLC

VARIABLES
    settings,         \* core/config.py Settings (fixed for a run)
    price_selectors,  \* YahooHTMLScraper.price_selectors
    gemini_cached,    \* DataFetcher._gemini_assistant is not None
    yf_last_set,      \* YFinanceDataSource._last_request_time is not None
    html_last_set,    \* YahooHTMLScraper._last_request_time is not None
    pc,               \* position inside DataFetcher.get_quote ("done": it ended;
                      \* "mq_done": get_multiple_quotes returned)
    ticker,           \* get_quote's argument
    request_id,       \* local request_id
    gemini_used,      \* local gemini_used
    selectors,        \* local selectors["price_selector"] of _gemini_assisted_scrape
    metadata,         \* the ScrapeMetadata record get_quote built last
    result,           \* how the last get_quote call ended
    log,              \* loguru records written by the current get_quote call
    calls,            \* history: leaf calls made by the current get_quote call
    scrape,           \* history: what the scraper attempt of the last step saw
    installed,        \* history: this call's update_selectors changed the list
    repaired,         \* history: selectors installed by a call whose re-attempt used them
    caller,           \* who called get_quote: "client" or "batch"
    mq_tickers,       \* get_multiple_quotes' argument
    mq_i,             \* index of the loop over tickers
    mq_results,       \* local results
    mq_trace,         \* history: each get_quote call of the batch, and how it ended
    mq_result,        \* what the last get_multiple_quotes call returned
    now,              \* time.time() / datetime.utcnow(), in ticks
    history,          \* the last DataFetcher.get_history call: arguments, query, outcome
    prev,             \* history: the get_quote call before the current one
    last_request_time,\* _last_request_time of each leaf client (NoTime: None)
    leaf,             \* the leaf-client call in progress or just ended
    starts,           \* history: per leaf client, the request start times recorded
    API_KEY,          \* app/api.py API_KEY (fixed for a run)
    request,          \* the HTTP request being answered
    response,         \* the HTTP response to it
    fetcher_calls,    \* history: the data_fetcher calls made for the request
    quote_in,         \* keyword arguments given to the Quote constructor
    quote_out,        \* what the constructor gave: a Quote or ValidationError
    gemini,           \* GeminiClient: its fields and the generate_text call
    threads,          \* per thread: its position inside update_selectors
    raced             \* history: selectors two threads found absent before
                      \* either inserted

vars == <<settings, price_selectors, gemini_cached, yf_last_set, html_last_set,
          pc, ticker, request_id, gemini_used, selectors, metadata, result, log,
          calls, scrape, installed, repaired, caller, mq_tickers, mq_i, mq_results,
          mq_trace, mq_result, now, history, prev, last_request_time, leaf, starts,
          API_KEY, request, response, fetcher_calls, quote_in, quote_out,
          gemini, threads, raced>>

fetcher_vars == <<price_selectors, gemini_cached, yf_last_set, html_last_set>>
batch_vars == <<mq_tickers, mq_i, mq_results, mq_trace, mq_result>>
quote_vars == <<pc, ticker, request_id, gemini_used, selectors, metadata, result, log,
                calls, scrape, installed, repaired, caller>>
leaf_vars == <<last_request_time, leaf, starts>>
api_vars == <<API_KEY, request, response, fetcher_calls>>
model_vars == <<quote_in, quote_out>>
\* what DataFetcher.get_quote and get_multiple_quotes neither read nor write
llm_vars == <<gemini>>
thread_vars == <<threads, raced>>
aux_vars == <<now, leaf_vars, api_vars, model_vars, llm_vars, thread_vars>>

----------------------------------------------------------------------------
(* Bounds and input sets *)

MaxBatch == 2

Tickers == {"AAPL", "msft"}

upper(t) == IF t = "msft" THEN "MSFT" ELSE t

Prices == {150, 151}

RequestIds == {"3f2a9c1e", "b07d4e55"}

RateLimits == {0, 1}

\* get_history's date arguments and period tokens
Dates == {"2024-01-02", "2024-06-03"}

Periods == {"5d", "1mo"}

MaxBars == 2

\* the clock: ticks per second, and the last tick of a run
TicksPerSecond == 2

MaxTime == 5

\* the longest time between a get_quote call and its repetition
MaxGap == 1

\* the largest max_retries given to generate_text
MaxRetries == 4

\* the longest price-selector list followed
MaxSelectors == 8

None == "<None>"

PRICE_SELECTORS ==
    << "fin-streamer[data-field='regularMarketPrice']",
       "[data-testid='qsp-price']",
       ".livePrice span" >>

SuggestedSelectors == {"[data-symbol] .price", "span.quote-price"}

Range(s) == {s[i] : i \in DOMAIN s}

AllSelectors == Range(PRICE_SELECTORS) \cup SuggestedSelectors

\* what suggest_selectors' dict can hold under "price_selector"
Suggestions == AllSelectors \cup {None, ""}

TextKinds == {"none", "bad", "ok"}

\* A fetched quote page: for each selector the text of the element it selects
\* ("none": no element or no text, "bad": text that is no valid price, "ok":
\* text that parses to a valid price), and the same for the embedded script data.
Pages == [text : [AllSelectors -> TextKinds], script : TextKinds]

NoQuote == [ticker |-> "", price |-> 0, source |-> "none", timestamp |-> 0]

NoMetadata == [request_id |-> "", ticker |-> "", source |-> "", success |-> FALSE,
               error_message |-> <<>>, gemini_used |-> FALSE]

NoResult == [kind |-> "none", quote |-> NoQuote, metadata |-> NoMetadata,
             error |-> <<>>]

NoScrape == [fetched |-> FALSE, ok |-> FALSE, used |-> None, matched |-> {}]

NoHistory == [args |-> <<>>, query |-> <<>>, calls |-> <<>>, provider |-> "none",
              outcome |-> "none", bars |-> 0, selectors_before |-> <<>>]

NoPrev == [ticker |-> "", calls |-> <<>>, result |-> NoResult]

Clients == {"yfinance", "html"}

\* _last_request_time = None
NoTime == -1

NoLeaf == [client |-> "", method |-> "", attempt |-> 0, requests |-> <<>>,
           outcome |-> "none"]

NoRequest == [endpoint |-> "", key |-> None, body |-> <<>>]

NoResponse == [status |-> 0, success_count |-> 0, failed_tickers |-> <<>>,
               quotes |-> <<>>]

\* an Optional[int] / Optional[float] value: Null is None, Some(v) a number
Null == <<>>

Some(v) == <<v>>

NoQuoteInput == [price |-> 0, source |-> "", volume |-> Null, market_cap |-> Null]

NoQuoteOutput == [kind |-> "none", quote |-> NoQuoteInput]

\* a GeminiClient as constructed (client, last_set: _client and
\* _last_request_time are not None), with no generate_text call made
NoGemini == [pc |-> "idle", max_retries |-> 0, attempt |-> 0, requests |-> <<>>,
             sleeps |-> <<>>, result |-> "none", client |-> FALSE, last_set |-> FALSE]

ThreadIds == {"T1", "T2"}

NoThread == [pc |-> "idle", new_price_selector |-> None, before |-> <<>>]

----------------------------------------------------------------------------
(* core/models.py *)

\* a Quote as the clients build it: timestamp = datetime.utcnow()
Quote(t, p, src) == [ticker |-> t, price |-> p, source |-> src, timestamp |-> now]

ScrapeMetadata(rid, t, src, ok, err, gem) ==
    [request_id |-> rid, ticker |-> t, source |-> src, success |-> ok,
     error_message |-> err, gemini_used |-> gem]

\* the keyword arguments tried on the Quote constructor
QuoteInputs ==
    [price : {-1, 0, 150},
     source : {"yfinance", "yahoo_html", "other"},
     volume : {Null, Some(-1), Some(0), Some(5)},
     market_cap : {Null, Some(-1), Some(0), Some(5)}]

\* lines 11-29: what pydantic checks when a Quote is constructed: price has
\* ge=0, source is a Literal; volume and market_cap are declared
\* Optional[int] and Optional[float] without a constraint
Quote_fields_valid(kw) ==
    /\ kw.price >= 0
    /\ kw.source \in {"yfinance", "yahoo_html"}

Quote_construct(kw) ==
    IF Quote_fields_valid(kw) THEN [kind |-> "Quote", quote |-> kw]
    ELSE [kind |-> "ValidationError", quote |-> NoQuoteInput]

----------------------------------------------------------------------------
(* data_sources/yahoo_html.py *)

Truthy(s) == s # None /\ s # ""

\* mutant: the new selector is added at the end of the list
update_selectors_appends(sels, new_price_selector) ==
    IF Truthy(new_price_selector) /\ new_price_selector \notin Range(sels)
    THEN Append(sels, new_price_selector)
    ELSE sels

\* mutant: the new selector is added whether or not the list holds it
update_selectors_unchecked(sels, new_price_selector) ==
    IF Truthy(new_price_selector)
    THEN <<new_price_selector>> \o sels
    ELSE sels

\* mutant: the new selector takes the place of the first one
update_selectors_replaces(sels, new_price_selector) ==
    IF Truthy(new_price_selector) /\ new_price_selector \notin Range(sels)
    THEN <<new_price_selector>> \o Tail(sels)
    ELSE sels

update_selectors(sels, new_price_selector) ==
    IF Truthy(new_price_selector) /\ new_price_selector \notin Range(sels)
    THEN <<new_price_selector>> \o sels
    ELSE sels

\* update_selectors as a thread runs it: the test of lines 348-350 and the
\* insertion of line 351 are separate steps

\* mutant: the list is not looked at
selector_absent_unchecked(sels, new_price_selector) == Truthy(new_price_selector)

\* lines 348-350
selector_absent(sels, new_price_selector) ==
    Truthy(new_price_selector) /\ new_price_selector \notin Range(sels)

\* line 351
insert_front(sels, new_price_selector) == <<new_price_selector>> \o sels

\* further selectors given to update_selectors directly
ExtraSelectors == {"#quote-price", "td.price"}

\* the arguments tried on update_selectors: selectors in the list, new ones,
\* the empty string and None
SelectorArguments == Suggestions \cup ExtraSelectors

\* mutant: the last selector of sels whose element has text wins
find_element_with_selectors_last(page, sels) ==
    LET hits == {i \in DOMAIN sels : page.text[sels[i]] # "none"}
    IN IF hits = {} THEN None
       ELSE sels[CHOOSE i \in hits : \A j \in hits : j <= i]

\* The first selector of sels whose element has text, or None.
RECURSIVE find_element_with_selectors(_, _)
find_element_with_selectors(page, sels) ==
    IF sels = <<>> THEN None
    ELSE IF page.text[Head(sels)] # "none" THEN Head(sels)
    ELSE find_element_with_selectors(page, Tail(sels))

\* parse_quote_from_html: which source of the page gives price_str
\* (a selector, "script" or None) and whether a Quote comes out of it.
price_source(page, sels) ==
    LET s == find_element_with_selectors(page, sels)
    IN IF s # None THEN s
       ELSE IF page.script # "none" THEN "script"
       ELSE None

\* mutant: a page without any price gives a Quote
parse_ok_without_price(page, sels) ==
    LET s == price_source(page, sels)
    IN IF s = None THEN TRUE
       ELSE IF s = "script" THEN page.script = "ok"
       ELSE page.text[s] = "ok"

parse_ok(page, sels) ==
    LET s == price_source(page, sels)
    IN IF s = None THEN FALSE
       ELSE IF s = "script" THEN page.script = "ok"
       ELSE page.text[s] = "ok"

\* _rate_limit_wait divides 1.0 by rate_limit once a request time is recorded.
rate_limit_raises(last_set) == last_set /\ settings.rate_limit = 0

----------------------------------------------------------------------------
(* app/data_fetcher.py: DataFetcher.gemini_assistant *)

is_available == settings.use_gemini_assistant /\ settings.gemini_api_key

gemini_assistant_after == gemini_cached \/ (settings.use_gemini_assistant /\ is_available)

----------------------------------------------------------------------------
InitFetcher ==
    /\ settings \in [use_yfinance : BOOLEAN, use_html_fallback : BOOLEAN,
                     use_gemini_assistant : BOOLEAN, gemini_api_key : BOOLEAN,
                     rate_limit : RateLimits]
    /\ price_selectors = PRICE_SELECTORS
    /\ gemini_cached = FALSE
    /\ yf_last_set = FALSE
    /\ html_last_set = FALSE
    /\ pc = "idle"
    /\ ticker = ""
    /\ request_id = ""
    /\ gemini_used = FALSE
    /\ selectors = None
    /\ metadata = NoMetadata
    /\ result = NoResult
    /\ log = <<>>
    /\ calls = <<>>
    /\ scrape = NoScrape
    /\ installed = FALSE
    /\ repaired = {}
    /\ caller = "client"
    /\ mq_tickers = <<>>
    /\ mq_i = 0
    /\ mq_results = <<>>
    /\ mq_trace = <<>>
    /\ mq_result = <<>>
    /\ history = NoHistory
    /\ prev = NoPrev

InitClock == now = 0

InitLeaf ==
    /\ last_request_time = [c \in Clients |-> NoTime]
    /\ leaf = NoLeaf
    /\ starts = [c \in Clients |-> <<>>]

InitApi ==
    /\ API_KEY = None
    /\ request = NoRequest
    /\ response = NoResponse
    /\ fetcher_calls = <<>>

InitModels ==
    /\ quote_in = NoQuoteInput
    /\ quote_out = NoQuoteOutput

InitLlm == gemini = NoGemini

InitThreads ==
    /\ threads = [t \in ThreadIds |-> NoThread]
    /\ raced = {}

Init ==
    /\ InitFetcher /\ InitClock /\ InitLeaf /\ InitApi /\ InitModels
    /\ InitLlm /\ InitThreads

----------------------------------------------------------------------------
(* data_sources/yahoo_html.py: YahooHTMLScraper.get_quote as the caller sees it *)

\* What one get_quote of the scraper does with a fetched page: ok iff a Quote
\* comes out; used: where price_str came from; matched: the selectors of
\* earlier successful repairs that select a valid price in this page.
scrape_page(page) ==
    [fetched |-> TRUE,
     ok      |-> parse_ok(page, price_selectors),
     used    |-> price_source(page, price_selectors),
     matched |-> {s \in repaired : page.text[s] = "ok"}]

\* fetch_html raised (HTTP status, request error, or the rate limiter's division).
fetch_failed == NoScrape

scraper_get_quote ==
    IF rate_limit_raises(html_last_set) THEN {fetch_failed}
    ELSE {fetch_failed} \cup {scrape_page(p) : p \in Pages}

----------------------------------------------------------------------------
(* app/data_fetcher.py: DataFetcher.get_quote *)

error_msg(t) == <<"All data sources failed for ", t>>

Record(level, msg) == [level |-> level, msg |-> msg]

\* one entry of the history calls: the leaf call, how it ended ("ok" or the
\* exception it raised) and the Quote it returned
Call(name, ans, q) == [call |-> name, ans |-> ans, quote |-> q]

Returned(q, m) == [kind |-> "return", quote |-> q, metadata |-> m, error |-> <<>>]

Raised(e) == [kind |-> "raise", quote |-> NoQuote, metadata |-> NoMetadata, error |-> e]

\* mutant: the provider path reports the scraper as its source
yfinance_metadata_wrong_source(rid, t) ==
    ScrapeMetadata(rid, t, "yahoo_html", TRUE, <<>>, FALSE)

\* lines 76-83
yfinance_metadata(rid, t) == ScrapeMetadata(rid, t, "yfinance", TRUE, <<>>, FALSE)

\* mutant: the plain scraper path reports the assistant as used
html_metadata_gemini(rid, t) == ScrapeMetadata(rid, t, "yahoo_html", TRUE, <<>>, TRUE)

\* lines 96-103
html_metadata(rid, t) == ScrapeMetadata(rid, t, "yahoo_html", TRUE, <<>>, FALSE)

\* lines 116-123
gemini_metadata(rid, t) == ScrapeMetadata(rid, t, "yahoo_html", TRUE, <<>>, TRUE)

\* mutant: the failure record reports the assistant as used
failure_metadata_gemini(rid, t, gem) ==
    ScrapeMetadata(rid, t, "none", FALSE, error_msg(t), TRUE)

\* lines 134-142
failure_metadata(rid, t, gem) == ScrapeMetadata(rid, t, "none", FALSE, error_msg(t), gem)

\* mutant: the scraper is tried whatever use_html_fallback says
after_provider_ignores_flag == "scrape1"

\* line 91
after_provider == IF settings.use_html_fallback THEN "scrape1" ELSE "fail"

\* mutant: the scraper is tried before the provider
first_stage_scraper_first == IF settings.use_html_fallback THEN "scrape1" ELSE "provider"

\* line 71
first_stage == IF settings.use_yfinance THEN "provider" ELSE after_provider

\* mutant: without an assistant the scraper is tried once more
after_scraper_error_retries == IF gemini_assistant_after THEN "snippet" ELSE "scrape2"

\* mutant: the repair is started whether or not an assistant is available
after_scraper_error_always == "snippet"

\* line 111
after_scraper_error == IF gemini_assistant_after THEN "snippet" ELSE "fail"

\* line 87: the exceptions of the provider call that get_quote catches
caught_from_provider == {"YFinanceError"}

\* lines 66-68: a fresh request
begin_get_quote(t) ==
    /\ ticker' = t
    /\ request_id' \in RequestIds
    /\ gemini_used' = FALSE
    /\ selectors' = None
    /\ metadata' = NoMetadata
    /\ result' = NoResult
    /\ log' = <<>>
    /\ calls' = <<>>
    /\ scrape' = NoScrape
    /\ installed' = FALSE
    /\ pc' = first_stage

GetQuote(t) ==
    /\ pc \in {"idle", "done", "mq_done"}
    /\ caller = "client"
    /\ begin_get_quote(t)
    /\ history' = NoHistory
    /\ prev' = NoPrev
    /\ UNCHANGED <<settings, fetcher_vars, repaired, caller, batch_vars, aux_vars>>

\* The client calls get_quote once more, for the same ticker, d ticks after
\* a call that the provider answered; prev keeps how that call ended.
GetQuoteAgain(d) ==
    /\ pc = "done"
    /\ caller = "client"
    /\ prev = NoPrev
    /\ result.kind = "return"
    /\ result.quote.source = "yfinance"
    /\ prev' = [ticker |-> ticker, calls |-> calls, result |-> result]
    /\ now + d <= MaxGap
    /\ now' = now + d
    /\ begin_get_quote(ticker)
    /\ UNCHANGED <<settings, fetcher_vars, repaired, caller, batch_vars, history,
                   leaf_vars, api_vars, model_vars, llm_vars, thread_vars>>

\* YFinanceDataSource.get_latest_quote as the caller sees it: a Quote, or the
\* exception it raises (the rate limiter's division is outside its try block)
provider_get_latest_quote ==
    IF rate_limit_raises(yf_last_set)
    THEN {Call("provider.get_latest_quote", "ZeroDivisionError", NoQuote)}
    ELSE {Call("provider.get_latest_quote", "YFinanceError", NoQuote)}
         \cup {Call("provider.get_latest_quote", "ok", Quote(upper(ticker), p, "yfinance"))
               : p \in Prices}

\* lines 71-88
ProviderCall ==
    /\ pc = "provider"
    /\ yf_last_set' = (yf_last_set \/ ~rate_limit_raises(yf_last_set))
    /\ \E c \in provider_get_latest_quote :
         /\ calls' = Append(calls, c)
         /\ IF c.ans = "ok"
            THEN /\ metadata' = yfinance_metadata(request_id, ticker)
                 /\ result' = Returned(c.quote, metadata')
                 /\ pc' = "done"
                 /\ UNCHANGED log
            ELSE IF c.ans \in caught_from_provider
            THEN /\ log' = Append(log, Record("WARNING", <<"yfinance failed for ", ticker>>))
                 /\ pc' = after_provider
                 /\ UNCHANGED <<metadata, result>>
            ELSE /\ result' = Raised(<<c.ans>>)
                 /\ pc' = "done"
                 /\ UNCHANGED <<metadata, log>>
    /\ UNCHANGED <<settings, price_selectors, gemini_cached, html_last_set, ticker,
                   request_id, gemini_used, selectors, scrape, installed, repaired,
                   caller, batch_vars, history, prev, aux_vars>>

\* the history entry of one scraper get_quote with outcome o and parsed price p
scraper_call(o, p) ==
    IF o.ok THEN Call("scraper.get_quote", "ok", Quote(upper(ticker), p, "yahoo_html"))
    ELSE Call("scraper.get_quote", "HTMLScraperError", NoQuote)

\* lines 91-111, with the gemini_assistant property
Scrape1 ==
    /\ pc = "scrape1"
    /\ html_last_set' = (html_last_set \/ ~rate_limit_raises(html_last_set))
    /\ \E o \in scraper_get_quote : \E p \in Prices :
         LET c == scraper_call(o, p)
         IN /\ scrape' = o
            /\ calls' = Append(calls, c)
            /\ IF c.ans = "ok"
               THEN /\ metadata' = html_metadata(request_id, ticker)
                    /\ result' = Returned(c.quote, metadata')
                    /\ pc' = "done"
                    /\ UNCHANGED <<log, gemini_cached>>
               ELSE /\ log' = Append(log, Record("WARNING",
                                                 <<"HTML scraping failed for ", ticker>>))
                    /\ gemini_cached' = gemini_assistant_after
                    /\ pc' = after_scraper_error
                    /\ UNCHANGED <<metadata, result>>
    /\ UNCHANGED <<settings, price_selectors, yf_last_set, ticker, request_id,
                   gemini_used, selectors, installed, repaired, caller, batch_vars, history, prev, aux_vars>>

\* YahooHTMLScraper.get_html_snippet as the caller sees it (fetch_html is not
\* wrapped there: the rate limiter's division escapes as it is)
scraper_get_html_snippet ==
    IF rate_limit_raises(html_last_set)
    THEN {Call("scraper.get_html_snippet", "ZeroDivisionError", NoQuote)}
    ELSE {Call("scraper.get_html_snippet", "HTMLScraperError", NoQuote),
          Call("scraper.get_html_snippet", "ok", NoQuote)}

\* lines 156-159 (and 127-128)
Snippet ==
    /\ pc = "snippet"
    /\ html_last_set' = (html_last_set \/ ~rate_limit_raises(html_last_set))
    /\ \E c \in scraper_get_html_snippet :
         /\ calls' = Append(calls, c)
         /\ IF c.ans = "ok"
            THEN /\ pc' = "suggest"
                 /\ UNCHANGED log
            ELSE /\ log' = Append(log, Record("ERROR", <<"Gemini-assisted scraping failed">>))
                 /\ pc' = "fail"
    /\ scrape' = NoScrape
    /\ UNCHANGED <<settings, price_selectors, gemini_cached, yf_last_set, ticker,
                   request_id, gemini_used, selectors, metadata, result, installed,
                   repaired, caller, batch_vars, history, prev, aux_vars>>

\* lines 162-169 (and 127-128), with ScrapingAssistant.suggest_selectors, which
\* returns a dict (s: its "price_selector") or raises GeminiError
Suggest ==
    /\ pc = "suggest"
    /\ \/ /\ calls' = Append(calls, Call("assistant.suggest_selectors", "GeminiError", NoQuote))
          /\ log' = Append(log, Record("ERROR", <<"Gemini-assisted scraping failed">>))
          /\ pc' = "fail"
          /\ UNCHANGED <<selectors, price_selectors, installed>>
       \/ \E s \in Suggestions :
            /\ calls' = Append(calls, Call("assistant.suggest_selectors", "ok", NoQuote))
            /\ selectors' = s
            /\ price_selectors' = update_selectors(price_selectors, s)
            /\ installed' = (Truthy(s) /\ s \notin Range(price_selectors))
            /\ pc' = "scrape2"
            /\ UNCHANGED log
    /\ UNCHANGED <<settings, gemini_cached, yf_last_set, html_last_set, ticker,
                   request_id, gemini_used, metadata, result, scrape, repaired,
                   caller, batch_vars, history, prev, aux_vars>>

\* lines 172-174 and 113-128
Scrape2 ==
    /\ pc = "scrape2"
    /\ html_last_set' = (html_last_set \/ ~rate_limit_raises(html_last_set))
    /\ \E o \in scraper_get_quote : \E p \in Prices :
         LET c == scraper_call(o, p)
         IN /\ scrape' = o
            /\ calls' = Append(calls, c)
            /\ IF c.ans = "ok"
               THEN /\ gemini_used' = TRUE
                    /\ metadata' = gemini_metadata(request_id, ticker)
                    /\ result' = Returned(c.quote, metadata')
                    /\ pc' = "done"
                    /\ repaired' = IF installed /\ o.used = selectors
                                   THEN repaired \cup {selectors}
                                   ELSE repaired
                    /\ UNCHANGED log
               ELSE /\ log' = Append(log, Record("ERROR", <<"Gemini-assisted scraping failed">>))
                    /\ pc' = "fail"
                    /\ UNCHANGED <<gemini_used, metadata, result, repaired>>
    /\ UNCHANGED <<settings, price_selectors, gemini_cached, yf_last_set, ticker,
                   request_id, selectors, installed, caller, batch_vars, history, prev, aux_vars>>

\* lines 130-144
AllFailed ==
    /\ pc = "fail"
    /\ metadata' = failure_metadata(request_id, ticker, gemini_used)
    /\ result' = Raised(error_msg(ticker))
    /\ pc' = "done"
    /\ scrape' = NoScrape
    /\ UNCHANGED <<settings, fetcher_vars, ticker, request_id, gemini_used, selectors,
                   log, calls, installed, repaired, caller, batch_vars, history, prev, aux_vars>>

----------------------------------------------------------------------------
(* data_sources/yahoo_html.py: YahooHTMLScraper.update_selectors, called by   *)
(* one caller, and by the threads of concurrent get_quote calls               *)

\* lines 341-352: one whole call, by a caller that makes its calls one after
\* another; before keeps the list the call found
UpdateSelectors(s) ==
    /\ Len(price_selectors) < MaxSelectors
    /\ price_selectors' = update_selectors(price_selectors, s)
    /\ threads' = [threads EXCEPT !["T1"] = [pc |-> "done", new_price_selector |-> s,
                                             before |-> price_selectors]]
    /\ UNCHANGED <<settings, gemini_cached, yf_last_set, html_last_set, quote_vars,
                   batch_vars, history, prev, now, leaf_vars, api_vars, model_vars,
                   llm_vars, raced>>

thread_frame ==
    UNCHANGED <<settings, gemini_cached, yf_last_set, html_last_set, quote_vars,
                batch_vars, history, prev, now, leaf_vars, api_vars, model_vars,
                llm_vars>>

\* data_fetcher.py lines 168-169: thread t, inside _gemini_assisted_scrape
\* with suggestion s, calls update_selectors unless s is empty or None
ThreadCall(t, s) ==
    /\ threads[t].pc \in {"idle", "done"}
    /\ threads' = [threads EXCEPT ![t] = [pc |-> IF Truthy(s) THEN "check" ELSE "done",
                                          new_price_selector |-> s, before |-> <<>>]]
    /\ UNCHANGED <<price_selectors, raced>>
    /\ thread_frame

\* lines 348-350: thread t tests its selector against the list
ThreadCheck(t) ==
    /\ threads[t].pc = "check"
    /\ LET s == threads[t].new_price_selector
           absent == selector_absent(price_selectors, s)
       IN /\ threads' = [threads EXCEPT ![t].pc = IF absent THEN "insert" ELSE "done",
                                        ![t].before = price_selectors]
          /\ raced' = IF /\ absent
                         /\ \E u \in ThreadIds \ {t} :
                               /\ threads[u].pc = "insert"
                               /\ threads[u].new_price_selector = s
                      THEN raced \cup {s}
                      ELSE raced
    /\ UNCHANGED price_selectors
    /\ thread_frame

\* line 351: thread t inserts its selector
ThreadInsert(t) ==
    /\ threads[t].pc = "insert"
    /\ Len(price_selectors) < MaxSelectors
    /\ price_selectors' = insert_front(price_selectors, threads[t].new_price_selector)
    /\ threads' = [threads EXCEPT ![t].pc = "done"]
    /\ UNCHANGED raced
    /\ thread_frame

----------------------------------------------------------------------------
(* app/data_fetcher.py: DataFetcher.get_multiple_quotes *)

BatchInputs == UNION {[1..n -> Tickers] : n \in 0..MaxBatch}

\* lines 208-212: results = [] and the first iteration's get_quote
GetMultipleQuotes(ts) ==
    /\ pc \in {"idle", "done", "mq_done"}
    /\ caller = "client"
    /\ mq_tickers' = ts
    /\ mq_results' = <<>>
    /\ mq_trace' = <<>>
    /\ IF ts = <<>>
       THEN /\ mq_result' = <<>>
            /\ mq_i' = 0
            /\ pc' = "mq_done"
            /\ UNCHANGED <<ticker, request_id, gemini_used, selectors, metadata,
                           result, log, calls, scrape, installed, caller>>
       ELSE /\ mq_i' = 1
            /\ caller' = "batch"
            /\ begin_get_quote(ts[1])
            /\ mq_result' = <<>>
    /\ UNCHANGED <<settings, fetcher_vars, repaired, history, prev, aux_vars>>

\* mutant: a result is put in front of the earlier ones
collect_prepends(results, r) ==
    IF r.kind = "return" THEN <<(<<r.quote, r.metadata>>)>> \o results ELSE results

\* lines 212-215: what one iteration does with the outcome of its get_quote
collect(results, r) ==
    IF r.kind = "return" THEN Append(results, <<r.quote, r.metadata>>) ELSE results

\* lines 210-217: the end of one iteration, then the next one or the return
MqNext ==
    /\ pc = "done"
    /\ caller = "batch"
    /\ mq_results' = collect(mq_results, result)
    /\ mq_trace' = Append(mq_trace, [ticker |-> ticker, result |-> result])
    /\ IF mq_i < Len(mq_tickers)
       THEN /\ mq_i' = mq_i + 1
            /\ begin_get_quote(mq_tickers[mq_i + 1])
            /\ UNCHANGED <<caller, mq_result>>
       ELSE /\ mq_result' = mq_results'
            /\ caller' = "client"
            /\ pc' = "mq_done"
            /\ UNCHANGED <<mq_i, ticker, request_id, gemini_used, selectors, metadata,
                           result, log, calls, scrape, installed>>
    /\ UNCHANGED <<settings, fetcher_vars, repaired, mq_tickers, history, prev, aux_vars>>

----------------------------------------------------------------------------
(* data_sources/yahoo_yfinance.py: YFinanceDataSource.get_history *)

\* mutant: period is used whenever it is given
history_query_period_first(start, end, period) ==
    IF period # None THEN [start |-> None, end |-> None, period |-> period]
    ELSE [start |-> start, end |-> end, period |-> None]

\* lines 151-156: the keyword arguments ticker_obj.history is called with
\* (None: not passed).  A date is always truthy.
history_query(start, end, period) ==
    IF start # None /\ end # None
    THEN [start |-> start, end |-> end, period |-> None]
    ELSE IF start # None
    THEN [start |-> start, end |-> None, period |-> None]
    ELSE [start |-> None, end |-> None, period |-> period]

\* mutant: an empty frame gives an empty list
provider_get_history_empty ==
    {[ans |-> "ok", bars |-> n] : n \in 0..MaxBars}

\* lines 146-180 as the caller sees it: the rate limiter's division escapes;
\* an empty frame and every exception in the try block end as YFinanceError;
\* otherwise there is one bar per row of the frame
provider_get_history ==
    IF rate_limit_raises(yf_last_set)
    THEN {[ans |-> "ZeroDivisionError", bars |-> 0]}
    ELSE {[ans |-> "YFinanceError", bars |-> 0]}
         \cup {[ans |-> "ok", bars |-> n] : n \in 1..MaxBars}

----------------------------------------------------------------------------
(* app/data_fetcher.py: DataFetcher.get_history *)

\* mutant: a provider failure is reported as the terminal error of get_quote
fetcher_get_history_terminal(c) ==
    IF c.ans = "ok" THEN c ELSE [ans |-> "All data sources failed", bars |-> 0]

\* line 196: the provider's answer, returned or raised as it is
fetcher_get_history(c) == c

\* the locals of the last get_quote call are gone
forget_get_quote ==
    /\ pc' = "idle"
    /\ ticker' = ""
    /\ request_id' = ""
    /\ gemini_used' = FALSE
    /\ selectors' = None
    /\ metadata' = NoMetadata
    /\ result' = NoResult
    /\ log' = <<>>
    /\ calls' = <<>>
    /\ scrape' = NoScrape
    /\ installed' = FALSE

\* lines 176-196
GetHistory(t, start, end, period) ==
    /\ pc \in {"idle", "done"}
    /\ caller = "client"
    /\ yf_last_set' = (yf_last_set \/ ~rate_limit_raises(yf_last_set))
    /\ \E c \in provider_get_history :
         history' = [args |-> [ticker |-> t, start |-> start, end |-> end,
                               period |-> period],
                     query |-> IF c.ans = "ZeroDivisionError" THEN <<>>
                               ELSE history_query(start, end, period),
                     calls |-> <<"provider.get_history">>,
                     provider |-> c.ans,
                     outcome |-> fetcher_get_history(c).ans,
                     bars |-> fetcher_get_history(c).bars,
                     selectors_before |-> price_selectors]
    /\ forget_get_quote
    /\ prev' = NoPrev
    /\ UNCHANGED <<settings, price_selectors, gemini_cached, html_last_set, repaired,
                   caller, batch_vars, aux_vars>>

----------------------------------------------------------------------------
(* data_sources/yahoo_yfinance.py and yahoo_html.py: one call of a leaf        *)
(* client's fetch method, with its retry decorator and its rate limiter        *)

\* the methods under a retry decorator that start with _rate_limit_wait
Methods == [yfinance |-> {"get_latest_quote", "get_history"}, html |-> {"fetch_html"}]

\* how the underlying request of an attempt can end: yfinance's
\* ticker_obj.history (an empty frame is "empty"), httpx's client.get with
\* raise_for_status
RequestOutcomes ==
    [yfinance |-> {"ok", "empty", "ConnectionError", "TimeoutError"},
     html |-> {"ok", "HTTPStatusError", "TimeoutException", "NetworkError"}]

\* the transient network errors of each client's library
Transient ==
    [yfinance |-> {"ConnectionError", "TimeoutError"},
     html |-> {"TimeoutException", "NetworkError"}]

\* what leaves the method body for a request that ended with o.  yfinance:
\* "except Exception" turns everything into YFinanceError.  html: the two
\* except clauses catch HTTPStatusError and RequestError, the base class of
\* TimeoutException and NetworkError.
raised(c, o) ==
    IF o = "ok" THEN "ok"
    ELSE IF c = "yfinance" THEN "YFinanceError"
    ELSE "HTMLScraperError"

\* retry_if_exception_type(...) of the decorators
retry_types == Transient

\* stop_after_attempt(3)
stop_after_attempt == 3

\* the decorator's decision after an attempt that raised e
should_retry(c, e, attempt) == e \in retry_types[c] /\ attempt < stop_after_attempt

\* min_interval = 1.0 / self.rate_limit, in ticks
min_interval == TicksPerSecond \div settings.rate_limit

\* mutant: the limiter sleeps one tick less than the remaining interval
sleep_time_short(elapsed, interval) ==
    IF elapsed < interval THEN interval - elapsed - 1 ELSE 0

\* _rate_limit_wait: how long it sleeps
sleep_time(elapsed, interval) ==
    IF elapsed < interval THEN interval - elapsed ELSE 0

LastTwo(s) == IF Len(s) > 2 THEN Tail(s) ELSE s

\* a caller invokes method m of client c
LeafBegin(c, m) ==
    /\ leaf.outcome # "running"
    /\ leaf' = [client |-> c, method |-> m, attempt |-> 0, requests |-> <<>>,
                outcome |-> "running"]
    /\ UNCHANGED <<settings, fetcher_vars, quote_vars, batch_vars, history, prev, now,
                   last_request_time, starts, api_vars, model_vars, llm_vars, thread_vars>>

\* One execution of the method body under the retry decorator:
\* _rate_limit_wait (time.sleep may return late), the request, the except
\* clauses, and the decorator's decision to call the body again or to let the
\* value or exception through.
LeafAttempt ==
    /\ leaf.outcome = "running"
    /\ LET c == leaf.client
           last == last_request_time[c]
           n == leaf.attempt + 1
       IN IF last # NoTime /\ settings.rate_limit = 0
          THEN /\ leaf' = [leaf EXCEPT !.attempt = n, !.outcome = "ZeroDivisionError"]
               /\ UNCHANGED <<now, last_request_time, starts, yf_last_set, html_last_set>>
          ELSE \E late \in 0..1 : \E o \in RequestOutcomes[c] :
                 LET due == IF last = NoTime THEN 0
                            ELSE sleep_time(now - last, min_interval)
                     slept == IF due > 0 THEN due + late ELSE 0
                     t == now + slept
                     e == raised(c, o)
                 IN /\ t <= MaxTime
                    /\ now' = t
                    /\ last_request_time' = [last_request_time EXCEPT ![c] = t]
                    /\ starts' = [starts EXCEPT ![c] =
                                     LastTwo(Append(@, [time |-> t, slept |-> slept,
                                                        first |-> (last = NoTime),
                                                        ok |-> (o = "ok")]))]
                    /\ yf_last_set' = (yf_last_set \/ c = "yfinance")
                    /\ html_last_set' = (html_last_set \/ c = "html")
                    /\ leaf' = [leaf EXCEPT !.attempt = n,
                                            !.requests = Append(@, o),
                                            !.outcome = IF e # "ok" /\ should_retry(c, e, n)
                                                        THEN "running" ELSE e]
    /\ UNCHANGED <<settings, price_selectors, gemini_cached, quote_vars, batch_vars,
                   history, prev, api_vars, model_vars, llm_vars, thread_vars>>

\* time passes
Tick ==
    /\ now < MaxTime
    /\ now' = now + 1
    /\ UNCHANGED <<settings, fetcher_vars, quote_vars, batch_vars, history, prev,
                   leaf_vars, api_vars, model_vars, llm_vars, thread_vars>>

----------------------------------------------------------------------------
(* llm/gemini_client.py: GeminiClient.generate_text *)

\* line 72: the default of max_retries
default_max_retries == 3

\* what one generate_content request ends in: a response with text, one with
\* candidates, one with neither, or an exception
GenerateOutcomes == {"text", "candidates", "unexpected", "exception"}

\* lines 115-120: the request gave a text to return
gives_text(o) == o \in {"text", "candidates"}

\* lines 36-56: what _get_client does: "cached", "created", or the GeminiError
\* for a missing key or a failed construction
get_client_outcomes ==
    IF gemini.client THEN {"cached"}
    ELSE IF ~settings.gemini_api_key THEN {"GeminiError"}
    ELSE {"created", "GeminiError"}

\* mutant: every failed attempt is followed by a sleep
should_sleep_always(attempt, max_retries) == TRUE

\* line 125
should_sleep(attempt, max_retries) == attempt < max_retries - 1

\* line 126, in seconds
backoff(attempt) == 2 ^ attempt

\* lines 88-95: the call up to the loop (and line 128 when the loop is empty).
\* The sleep of _rate_limit_wait comes before the first request and is not
\* recorded in sleeps.
GenerateText(max_retries) ==
    /\ gemini.pc \in {"idle", "done"}
    /\ LET g == [gemini EXCEPT !.max_retries = max_retries, !.attempt = 0,
                               !.requests = <<>>, !.sleeps = <<>>, !.result = "none"]
       IN IF ~settings.use_gemini_assistant
          THEN gemini' = [g EXCEPT !.pc = "done", !.result = "GeminiError"]
          ELSE \E c \in get_client_outcomes :
                 IF c = "GeminiError"
                 THEN gemini' = [g EXCEPT !.pc = "done", !.result = "GeminiError"]
                 ELSE gemini' = [g EXCEPT !.client = TRUE, !.last_set = TRUE,
                                          !.pc = IF max_retries > 0 THEN "attempt"
                                                 ELSE "done",
                                          !.result = IF max_retries > 0 THEN "none"
                                                     ELSE "GeminiError"]
    /\ UNCHANGED <<settings, fetcher_vars, quote_vars, batch_vars, history, prev, now,
                   leaf_vars, api_vars, model_vars, thread_vars>>

\* lines 95-128: one iteration of the loop, and the raise after the last one
GenerateAttempt ==
    /\ gemini.pc = "attempt"
    /\ \E o \in GenerateOutcomes :
         IF gives_text(o)
         THEN gemini' = [gemini EXCEPT !.requests = Append(@, o),
                                       !.pc = "done", !.result = "text"]
         ELSE LET last == gemini.attempt + 1 = gemini.max_retries
              IN gemini' = [gemini EXCEPT
                              !.requests = Append(@, o),
                              !.sleeps = IF should_sleep(gemini.attempt, gemini.max_retries)
                                         THEN Append(@, [after |-> Len(gemini.requests) + 1,
                                                         seconds |-> backoff(gemini.attempt)])
                                         ELSE @,
                              !.attempt = @ + 1,
                              !.pc = IF last THEN "done" ELSE "attempt",
                              !.result = IF last THEN "GeminiError" ELSE "none"]
    /\ UNCHANGED <<settings, fetcher_vars, quote_vars, batch_vars, history, prev, now,
                   leaf_vars, api_vars, model_vars, thread_vars>>

----------------------------------------------------------------------------
(* app/api.py: request validation.  A request string is the sequence of its   *)
(* characters, so that the patterns and str methods are computed on it.        *)

UpperLetters ==
    << "A", "B", "C", "D", "E", "F", "G", "H", "I", "J", "K", "L", "M",
       "N", "O", "P", "Q", "R", "S", "T", "U", "V", "W", "X", "Y", "Z" >>

LowerLetters ==
    << "a", "b", "c", "d", "e", "f", "g", "h", "i", "j", "k", "l", "m",
       "n", "o", "p", "q", "r", "s", "t", "u", "v", "w", "x", "y", "z" >>

Digits == << "0", "1", "2", "3", "4", "5", "6", "7", "8", "9" >>

Whitespace == {" ", "\t", "\n", "\r"}

\* str.upper()
char_upper(c) ==
    IF \E i \in DOMAIN LowerLetters : LowerLetters[i] = c
    THEN UpperLetters[CHOOSE i \in DOMAIN LowerLetters : LowerLetters[i] = c]
    ELSE c

str_upper(v) == [i \in DOMAIN v |-> char_upper(v[i])]

\* str.strip()
RECURSIVE str_lstrip(_)
str_lstrip(v) ==
    IF v # <<>> /\ Head(v) \in Whitespace THEN str_lstrip(Tail(v)) ELSE v

RECURSIVE str_rstrip(_)
str_rstrip(v) ==
    IF v # <<>> /\ v[Len(v)] \in Whitespace
    THEN str_rstrip(SubSeq(v, 1, Len(v) - 1))
    ELSE v

str_strip(v) == str_rstrip(str_lstrip(v))

\* the character class [A-Za-z0-9.\-]
TickerChars == Range(UpperLetters) \cup Range(LowerLetters) \cup Range(Digits)
               \cup {".", "-"}

\* a pattern's $ matches at the end of the string and also just before a
\* newline that ends the string: the part of v that the pattern before $ has
\* to cover, in either way
BeforeDollar(v) ==
    {v} \cup (IF v # <<>> /\ v[Len(v)] = "\n" THEN {SubSeq(v, 1, Len(v) - 1)} ELSE {})

\* line 52: TICKER_PATTERN.match(v), the pattern being ^[A-Za-z0-9.\-]{1,10}$
TICKER_PATTERN_match(v) ==
    \E w \in BeforeDollar(v) :
        /\ Len(w) \in 1..10
        /\ \A i \in DOMAIN w : w[i] \in TickerChars

IsDigit(c) == c \in Range(Digits)

DateShape(w) ==
    /\ Len(w) = 10
    /\ \A i \in {1, 2, 3, 4, 6, 7, 9, 10} : IsDigit(w[i])
    /\ w[5] = "-" /\ w[8] = "-"

\* line 53: DATE_PATTERN.match(v), the pattern being ^\d{4}-\d{2}-\d{2}$
DATE_PATTERN_match(v) == \E w \in BeforeDollar(v) : DateShape(w)

DigitValue(c) == (CHOOSE i \in DOMAIN Digits : Digits[i] = c) - 1

Number(w, from, to) ==
    LET RECURSIVE num(_, _)
        num(i, acc) == IF i > to THEN acc ELSE num(i + 1, 10 * acc + DigitValue(w[i]))
    IN num(from, 0)

IsLeap(y) == (y % 4 = 0 /\ y % 100 # 0) \/ y % 400 = 0

DaysInMonth(y, m) ==
    IF m = 2 THEN (IF IsLeap(y) THEN 29 ELSE 28)
    ELSE IF m \in {4, 6, 9, 11} THEN 30
    ELSE 31

\* datetime.strptime(v, "%Y-%m-%d") returns a date (otherwise: ValueError),
\* for v of the shape that DATE_PATTERN lets through
strptime_ok(v) ==
    /\ DateShape(v)
    /\ LET y == Number(v, 1, 4)
           m == Number(v, 6, 7)
           d == Number(v, 9, 10)
       IN /\ y >= 1
          /\ m \in 1..12
          /\ d \in 1..DaysInMonth(y, m)

\* lines 33-45
PeriodEnum == {"1d", "5d", "1mo", "3mo", "6mo", "1y", "2y", "5y", "10y", "ytd", "max"}

\* lines 56-70 and 80-104: Field(min_length=1, max_length=10), then validate_ticker
ticker_field_valid(v) == Len(v) \in 1..10 /\ TICKER_PATTERN_match(v)

\* lines 106-111: validate_date (Absent: the field is null or not given)
Absent == <<"<absent>">>

date_field_valid(v) == v = Absent \/ DATE_PATTERN_match(v)

\* lines 86-89: period, with its default
period_field_valid(p) == p = None \/ p \in PeriodEnum

period_value(p) == IF p = None THEN "1mo" ELSE p

\* lines 126-131: Field(min_length=1, max_length=50) of tickers
tickers_min_length == 1

tickers_max_length == 50

\* lines 133-142: validate_tickers
tickers_field_valid(ts) ==
    /\ Len(ts) >= tickers_min_length
    /\ Len(ts) <= tickers_max_length
    /\ \A i \in DOMAIN ts : TICKER_PATTERN_match(str_strip(ts[i]))

validated_tickers(ts) == [i \in DOMAIN ts |-> str_upper(str_strip(ts[i]))]

----------------------------------------------------------------------------
(* app/api.py: the endpoints.  One action answers one request; what the data  *)
(* fetcher gives back to the handler is chosen by \E (its own steps are the   *)
(* actions of Spec, SpecBatch and SpecHistory).                               *)

\* the environment's API_KEY and the X-API-Key headers tried (None: not set)
ApiKeyConfigs == {None, "", "test-api-key"}

ApiKeyHeaders == {None, "", "test-api-key", "wrong-key"}

\* the strings tried as ticker of a request
TickerInputs ==
    { << "A", "A", "P", "L" >>,
      << "m", "s", "f", "t" >>,
      << >>,
      << "A", "@" >>,
      << "A", "B", "C", "D", "E", "F", "G", "H", "I", "J", "K" >>,
      << "A", "A", "P", "L", "\n" >> }

\* the strings tried as start and end of a /history request
DateInputs ==
    { Absent,
      << "2", "0", "2", "4", "-", "0", "1", "-", "0", "2" >>,
      << "0", "1", "-", "0", "1", "-", "2", "0", "2", "4" >>,
      << "2", "0", "2", "4", "-", "0", "2", "-", "3", "0" >> }

PeriodInputs == {None, "5d", "invalid"}

\* the entries of the short /batch requests tried
BatchItems == { << "A", "A", "P", "L" >>, << " ", "m", "s", "f", "t" >>, << "A", "@" >> }

\* the /batch requests tried: every list of up to MaxBatch entries, and lists
\* of tickers_max_length and tickers_max_length + 1 entries
BatchRequests ==
    UNION {[1..n -> BatchItems] : n \in 0..MaxBatch}
    \cup {[i \in 1..n |-> << "A", "A", "P", "L" >>]
          : n \in {tickers_max_length, tickers_max_length + 1}}

\* mutant: a request without the header is let through
verify_api_key_missing_ok(api_key) ==
    \/ ~Truthy(API_KEY)
    \/ ~Truthy(api_key)
    \/ api_key = API_KEY

\* lines 210-221: TRUE when the request is let through, FALSE for the 401
verify_api_key(api_key) ==
    IF ~Truthy(API_KEY) THEN TRUE
    ELSE ~(~Truthy(api_key) \/ api_key # API_KEY)

Response(status) ==
    [status |-> status, success_count |-> 0, failed_tickers |-> <<>>, quotes |-> <<>>]

\* one data_fetcher call of a handler: its arguments and what it gave back
FetcherCall(method, args, ans) == [method |-> method, args |-> args, ans |-> ans]

Respond(req, resp, fc) ==
    /\ request' = req
    /\ response' = resp
    /\ fetcher_calls' = fc
    /\ UNCHANGED <<API_KEY, settings, fetcher_vars, quote_vars, batch_vars, history,
                   prev, now, leaf_vars, model_vars, llm_vars, thread_vars>>

\* lines 336-371
PostQuote(key, body) ==
    LET req == [endpoint |-> "/quote", key |-> key, body |-> body]
    IN IF ~verify_api_key(key) THEN Respond(req, Response(401), <<>>)
       ELSE IF ~ticker_field_valid(body.ticker) THEN Respond(req, Response(422), <<>>)
       ELSE \E a \in {"return", "raise"} :
              Respond(req, Response(IF a = "return" THEN 200 ELSE 404),
                      <<FetcherCall("get_quote", [ticker |-> str_upper(body.ticker)], a)>>)

\* lines 480-511; store: whether core/storage.py save_quote returned
PostSave(key, body) ==
    LET req == [endpoint |-> "/save", key |-> key, body |-> body]
    IN IF ~verify_api_key(key) THEN Respond(req, Response(401), <<>>)
       ELSE IF ~ticker_field_valid(body.ticker) THEN Respond(req, Response(422), <<>>)
       ELSE \E a \in {"return", "raise"} : \E store \in {"return", "raise"} :
              Respond(req,
                      Response(IF a = "return" /\ store = "return" THEN 200 ELSE 500),
                      <<FetcherCall("get_quote", [ticker |-> str_upper(body.ticker)], a)>>)

\* what data_fetcher.get_history gives the handler: what the provider's
\* get_history gives, an exception or a list of bars
HistoryAnswers == {fetcher_get_history(c) : c \in provider_get_history}

\* lines 374-430
PostHistory(key, body) ==
    LET req == [endpoint |-> "/history", key |-> key, body |-> body]
    IN IF ~verify_api_key(key) THEN Respond(req, Response(401), <<>>)
       ELSE IF ~(/\ ticker_field_valid(body.ticker)
                 /\ period_field_valid(body.period)
                 /\ date_field_valid(body.start)
                 /\ date_field_valid(body.end))
       THEN Respond(req, Response(422), <<>>)
       ELSE IF \/ body.start # Absent /\ ~strptime_ok(body.start)
               \/ body.end # Absent /\ ~strptime_ok(body.end)
       THEN Respond(req, Response(404), <<>>)
       ELSE \E a \in HistoryAnswers :
              Respond(req,
                      Response(IF a.ans # "ok" THEN 404      \* lines 425-430
                               ELSE IF a.bars = 0 THEN 404   \* lines 410-414
                               ELSE 200),
                      <<FetcherCall("get_history",
                                    [ticker |-> str_upper(body.ticker),
                                     start |-> body.start, end |-> body.end,
                                     period |-> period_value(body.period)], a)>>)

\* what data_fetcher.get_multiple_quotes can give for ts: for each entry
\* whether its get_quote returned (for a long list: all or none)
Masks(ts) ==
    IF Len(ts) <= MaxBatch THEN [DOMAIN ts -> BOOLEAN]
    ELSE {[i \in DOMAIN ts |-> b] : b \in BOOLEAN}

\* the tickers of the quotes returned: those of the entries that succeeded
RECURSIVE Picked(_, _, _)
Picked(ts, mask, i) ==
    IF i > Len(ts) THEN <<>>
    ELSE (IF mask[i] THEN <<ts[i]>> ELSE <<>>) \o Picked(ts, mask, i + 1)

\* lines 433-477
PostBatch(key, body) ==
    LET req == [endpoint |-> "/batch", key |-> key, body |-> body]
        ts == validated_tickers(body.tickers)
    IN IF ~verify_api_key(key) THEN Respond(req, Response(401), <<>>)
       ELSE IF ~tickers_field_valid(body.tickers) THEN Respond(req, Response(422), <<>>)
       ELSE IF ts = <<>> THEN Respond(req, Response(400), <<>>)
       ELSE \E mask \in Masks(ts) :
              LET quotes == Picked(ts, mask, 1)
                  successful_tickers == Range(quotes)
                  NotSuccessful(t) == t \notin successful_tickers
              IN Respond(req,
                         [status |-> 200, success_count |-> Len(quotes),
                          failed_tickers |-> SelectSeq(ts, NotSuccessful),
                          quotes |-> quotes],
                         <<FetcherCall("get_multiple_quotes", [tickers |-> ts], mask)>>)

\* lines 284-293
GetHealth(key) ==
    Respond([endpoint |-> "/health", key |-> key, body |-> <<>>], Response(200), <<>>)

----------------------------------------------------------------------------
\* Clients calling get_quote, one call after another.
Next ==
    \/ \E t \in Tickers : GetQuote(t)
    \/ ProviderCall
    \/ Scrape1
    \/ Snippet
    \/ Suggest
    \/ Scrape2
    \/ AllFailed

Spec == Init /\ [][Next]_vars

\* Every leaf call answers: a get_quote call that has started takes its next step.
SpecLive ==
    /\ Spec
    /\ WF_vars(ProviderCall \/ Scrape1 \/ Snippet \/ Suggest \/ Scrape2 \/ AllFailed)

\* Clients calling get_multiple_quotes, one call after another.
NextBatch ==
    \/ \E ts \in BatchInputs : GetMultipleQuotes(ts)
    \/ MqNext
    \/ ProviderCall
    \/ Scrape1
    \/ Snippet
    \/ Suggest
    \/ Scrape2
    \/ AllFailed

SpecBatch == Init /\ [][NextBatch]_vars

\* Clients calling get_quote and get_history, one call after another.
NextHistory ==
    \/ \E t \in Tickers, start \in Dates \cup {None}, end \in Dates \cup {None},
          period \in Periods : GetHistory(t, start, end, period)
    \/ \E t \in Tickers : GetQuote(t)
    \/ ProviderCall
    \/ Scrape1
    \/ Snippet
    \/ Suggest
    \/ Scrape2
    \/ AllFailed

SpecHistory == Init /\ [][NextHistory]_vars

\* A client calling get_quote twice for a ticker, at once or a tick later.
NextRepeat ==
    \/ \E t \in Tickers : GetQuote(t)
    \/ \E d \in 0..MaxGap : GetQuoteAgain(d)
    \/ ProviderCall
    \/ Scrape1
    \/ Snippet
    \/ Suggest
    \/ Scrape2
    \/ AllFailed

SpecRepeat == Init /\ [][NextRepeat]_vars

\* core/models.py: Quote(**quote_in)
Construct ==
    /\ quote_out.kind = "none"
    /\ quote_out' = Quote_construct(quote_in)
    /\ UNCHANGED <<settings, fetcher_vars, quote_vars, batch_vars, history, prev, now,
                   leaf_vars, api_vars, quote_in, llm_vars,
                   thread_vars>>

\* core/config.py, lines 29-42: the settings at their defaults but for the rate
\* limit, the only setting the leaf clients read
DefaultFlags ==
    /\ settings.use_yfinance
    /\ settings.use_html_fallback
    /\ settings.use_gemini_assistant
    /\ ~settings.gemini_api_key

InitLeafCalls == Init /\ DefaultFlags

\* Callers of the leaf clients, one call after another, while time passes.
NextLeaf ==
    \/ \E c \in Clients : \E m \in Methods[c] : LeafBegin(c, m)
    \/ LeafAttempt
    \/ Tick

SpecLeaf == InitLeafCalls /\ [][NextLeaf]_vars

\* The REST service under each API_KEY setting.
InitRest ==
    /\ InitFetcher /\ DefaultFlags /\ settings.rate_limit = 1
    /\ InitClock /\ InitLeaf /\ InitModels /\ InitLlm /\ InitThreads
    /\ API_KEY \in ApiKeyConfigs
    /\ request = NoRequest
    /\ response = NoResponse
    /\ fetcher_calls = <<>>

\* An HTTP client sending a request.  No handler reads what an earlier request
\* left behind, so a behaviour holds one request.
NextRest ==
    /\ request = NoRequest
    /\ \/ \E key \in ApiKeyHeaders, v \in TickerInputs : PostQuote(key, [ticker |-> v])
       \/ \E key \in ApiKeyHeaders, v \in TickerInputs : PostSave(key, [ticker |-> v])
       \/ \E key \in ApiKeyHeaders, v \in TickerInputs, p \in PeriodInputs,
             start \in DateInputs, end \in DateInputs :
               PostHistory(key, [ticker |-> v, period |-> p, start |-> start, end |-> end])
       \/ \E key \in ApiKeyHeaders, ts \in BatchRequests : PostBatch(key, [tickers |-> ts])
       \/ \E key \in ApiKeyHeaders : GetHealth(key)

SpecRest == InitRest /\ [][NextRest]_vars

\* Callers of generate_text, one call after another; every generate_content
\* request answers.
NextGemini ==
    \/ \E n \in 0..MaxRetries : GenerateText(n)
    \/ GenerateAttempt

SpecGemini == Init /\ [][NextGemini]_vars /\ WF_vars(GenerateAttempt)

InitScraper == Init /\ DefaultFlags /\ settings.rate_limit = 1

\* One caller of update_selectors, one call after another.
NextSelectors == \E s \in SelectorArguments : UpdateSelectors(s)

SpecSelectors == InitScraper /\ [][NextSelectors]_vars

\* Two threads whose get_quote calls reach update_selectors at any time.
NextThreads ==
    \/ \E t \in ThreadIds, s \in Suggestions : ThreadCall(t, s)
    \/ \E t \in ThreadIds : ThreadCheck(t)
    \/ \E t \in ThreadIds : ThreadInsert(t)

SpecThreads == InitScraper /\ [][NextThreads]_vars

\* A Quote construction for each combination of arguments.
InitQuote ==
    /\ InitFetcher /\ DefaultFlags /\ settings.rate_limit = 1
    /\ InitClock /\ InitLeaf /\ InitApi /\ InitLlm /\ InitThreads
    /\ quote_in \in QuoteInputs
    /\ quote_out = NoQuoteOutput

NextQuote == Construct

SpecQuote == InitQuote /\ [][NextQuote]_vars

----------------------------------------------------------------------------
(* Properties of DataFetcher.get_quote, checked under Spec *)

Provider == "provider.get_latest_quote"
ScraperQuote == "scraper.get_quote"
ScraperSnippet == "scraper.get_html_snippet"
Assistant == "assistant.suggest_selectors"

CallNames == {calls[i].call : i \in DOMAIN calls}

IsCall(i, name) == i \in DOMAIN calls /\ calls[i].call = name

Ok(i) == calls[i].ans = "ok"

Terminal == result.kind = "raise" /\ result.error = error_msg(ticker)

\* C1: whenever the provider is enabled and its get_latest_quote has returned a
\* quote, get_quote has returned that very quote with metadata source
\* "yfinance", success = true and gemini_used = false, and the call has
\* invoked neither the scraper nor the assistant.
C1_ProviderSuccess ==
    \A i \in DOMAIN calls :
        (IsCall(i, Provider) /\ Ok(i)) =>
            /\ settings.use_yfinance
            /\ pc = "done"
            /\ result.kind = "return"
            /\ result.quote = calls[i].quote
            /\ result.metadata.request_id = request_id
            /\ result.metadata.ticker = ticker
            /\ result.metadata.source = "yfinance"
            /\ result.metadata.success
            /\ ~result.metadata.gemini_used
            /\ CallNames = {Provider}

C1_Witness ==
    /\ pc = "done"
    /\ IsCall(1, Provider) /\ Ok(1)
    /\ result.quote.source = "yfinance"

\* C2: whenever the provider has failed with a provider error and the first
\* scraper get_quote has succeeded, get_quote has returned the scraper's quote
\* with metadata source "yahoo_html", success = true and gemini_used = false,
\* and the assistant has not been invoked.
C2_ScraperFallback ==
    (IsCall(1, Provider) /\ calls[1].ans = "YFinanceError"
        /\ IsCall(2, ScraperQuote) /\ Ok(2)) =>
        /\ pc = "done"
        /\ result.kind = "return"
        /\ result.quote = calls[2].quote
        /\ result.metadata.source = "yahoo_html"
        /\ result.metadata.success
        /\ ~result.metadata.gemini_used
        /\ CallNames = {Provider, ScraperQuote}
        /\ Len(calls) = 2

C2_Witness ==
    /\ pc = "done"
    /\ IsCall(1, Provider) /\ calls[1].ans = "YFinanceError"
    /\ IsCall(2, ScraperQuote) /\ Ok(2)

\* A call in which the provider failed, the first scraper attempt failed, the
\* assistant suggested a price selector and the scraper re-attempt succeeded.
RepairedCall ==
    /\ Len(calls) = 5
    /\ IsCall(1, Provider) /\ ~Ok(1)
    /\ IsCall(2, ScraperQuote) /\ ~Ok(2)
    /\ IsCall(3, ScraperSnippet) /\ Ok(3)
    /\ IsCall(4, Assistant) /\ Ok(4) /\ Truthy(selectors)
    /\ IsCall(5, ScraperQuote) /\ Ok(5)

RepairedMetadata ==
    /\ pc = "done"
    /\ result.kind = "return"
    /\ result.quote = calls[5].quote
    /\ result.metadata.source = "yahoo_html"
    /\ result.metadata.success
    /\ result.metadata.gemini_used

\* C3 as stated: after such a call the suggested selector is the first element
\* of the price-selector list, whatever the list held before the call.
C3_SelectorFirst_Original ==
    RepairedCall => (RepairedMetadata /\ Head(price_selectors) = selectors)

\* C3 as amended: after such a call get_quote has returned with source
\* "yahoo_html", success = true and gemini_used = true, and the suggested
\* selector is in the price-selector list, as its first element when it was
\* not in the list before the call.
C3_SelectorFirst ==
    RepairedCall =>
        /\ RepairedMetadata
        /\ selectors \in Range(price_selectors)
        /\ installed => Head(price_selectors) = selectors

C3_Witness ==
    /\ RepairedCall
    /\ installed
    /\ Head(price_selectors) = selectors
    /\ result.metadata.gemini_used

\* The provider, the scraper and the repair have all failed or are disabled
\* or unavailable: no stage of the finished call produced a quote.
AllStagesFailed ==
    /\ pc = "done"
    /\ settings.use_yfinance => (IsCall(1, Provider) /\ ~Ok(1))
    /\ settings.use_html_fallback =>
           \E i \in DOMAIN calls : calls[i].call = ScraperQuote
    /\ \A i \in DOMAIN calls : calls[i].call = ScraperQuote => ~Ok(i)

\* C4: when provider, scraper and assistant-guided repair have all failed (or
\* are disabled or unavailable), get_quote has failed with the message "All
\* data sources failed for <ticker>", and the metadata record built for the
\* request has success = false, source = "none" and that error_message.
C4_AllSourcesFailed ==
    AllStagesFailed =>
        /\ result.kind = "raise"
        /\ result.error = <<"All data sources failed for ", ticker>>
        /\ metadata.request_id = request_id
        /\ metadata.ticker = ticker
        /\ ~metadata.success
        /\ metadata.source = "none"
        /\ metadata.error_message = result.error

\* What the caller of a finished get_quote can observe of a request: the
\* value returned, the error raised, and the log records written.
ObservableToCaller(rid) ==
    \/ result.metadata.request_id = rid
    \/ rid \in Range(result.error)
    \/ \E i \in DOMAIN log : rid \in Range(log[i].msg)

\* C5: when get_quote has ended in the terminal all-sources-failed error, the
\* failure metadata record (identified by its request_id) is observable by the
\* caller: returned, carried by the error or logged.
C5_FailureMetadataObservable ==
    (pc = "done" /\ Terminal) =>
        /\ metadata.request_id = request_id
        /\ ObservableToCaller(metadata.request_id)

\* C6: whatever way a leaf call fails, a finished get_quote has either
\* returned a (Quote, metadata) pair or failed with the terminal "All data
\* sources failed for <ticker>" error.
C6_OnlyTerminalErrorEscapes ==
    pc = "done" => (result.kind = "return" \/ Terminal)

\* C7: in every metadata record built by get_quote, gemini_used = true implies
\* success = true, source = "yahoo_html", and a request in which the provider
\* failed or is disabled, the first scraper attempt failed, the snippet was
\* retrieved, the assistant was invoked and the scraper re-attempt succeeded.
C7_AssistantUsedOnlyAfterRepair ==
    metadata.gemini_used =>
        /\ metadata.success
        /\ metadata.source = "yahoo_html"
        /\ result.kind = "return" /\ result.metadata = metadata
        /\ LET n == Len(calls)
           IN /\ n >= 4
              /\ IsCall(n, ScraperQuote) /\ Ok(n)
              /\ IsCall(n - 1, Assistant) /\ Ok(n - 1)
              /\ IsCall(n - 2, ScraperSnippet) /\ Ok(n - 2)
              /\ IsCall(n - 3, ScraperQuote) /\ ~Ok(n - 3)
              /\ \/ n = 4 /\ ~settings.use_yfinance
                 \/ n = 5 /\ IsCall(1, Provider) /\ ~Ok(1)

C7_Witness ==
    /\ metadata.gemini_used
    /\ Len(calls) = 4
    /\ ~settings.use_yfinance

\* The assistant produced a usable result in this request: suggest_selectors
\* returned a non-null price selector, which is in the scraper's list.
UsableSuggestion ==
    /\ \E i \in DOMAIN calls : calls[i].call = Assistant /\ Ok(i)
    /\ Truthy(selectors)
    /\ selectors \in Range(price_selectors)

\* C8: the metadata returned by get_quote has gemini_used = true if and only
\* if the assistant produced a usable result in that request.
C8_AssistantUsedIffUsable ==
    (pc = "done" /\ result.kind = "return") =>
        (result.metadata.gemini_used <=> UsableSuggestion)

\* A later call has made its first scraper attempt after a failed provider
\* call, on a page in which selector s of an earlier repair selects a price.
LaterCallMatches(s) ==
    /\ Len(calls) = 2
    /\ IsCall(1, Provider) /\ ~Ok(1)
    /\ IsCall(2, ScraperQuote)
    /\ s \in repaired
    /\ s \in scrape.matched

FirstAttemptUsed(s) ==
    /\ pc = "done"
    /\ Ok(2)
    /\ scrape.used = s
    /\ result.kind = "return"
    /\ result.metadata.source = "yahoo_html"
    /\ ~result.metadata.gemini_used
    /\ Assistant \notin CallNames

\* C9 as stated: after a call has repaired the scraper with selector s, every
\* later call in which the provider fails and the page matches s succeeds on
\* the first scraper attempt using s, without the assistant, with metadata
\* source "yahoo_html" and gemini_used = false.
C9_RepairPersists_Original ==
    \A s \in AllSelectors : LaterCallMatches(s) => FirstAttemptUsed(s)

\* C9 as amended: the same, for the calls in which s is still the first
\* selector of the list; and a selector of an earlier repair stays in the list.
C9_RepairPersists ==
    /\ repaired \subseteq Range(price_selectors)
    /\ \A s \in AllSelectors :
           (LaterCallMatches(s) /\ Head(price_selectors) = s) => FirstAttemptUsed(s)

C9_Witness ==
    \E s \in AllSelectors :
        /\ LaterCallMatches(s)
        /\ Head(price_selectors) = s
        /\ FirstAttemptUsed(s)

\* The last step was a scraper get_quote whose fetch_html returned a page.
ScrapedPage ==
    /\ scrape.fetched
    /\ calls # <<>>
    /\ calls[Len(calls)].call = ScraperQuote

SameProviderResponse ==
    /\ prev # NoPrev
    /\ pc = "done"
    /\ prev.ticker = ticker
    /\ Len(prev.calls) = 1 /\ prev.calls[1].call = Provider /\ prev.calls[1].ans = "ok"
    /\ IsCall(1, Provider) /\ Ok(1)
    /\ prev.calls[1].quote.price = calls[1].quote.price

\* C16: two get_quote calls for the same ticker, the provider giving the same
\* response both times, have returned metadata records with distinct
\* request_ids and Quotes equal in every field.
C16_Idempotent ==
    SameProviderResponse =>
        /\ result.kind = "return" /\ prev.result.kind = "return"
        /\ result.metadata.request_id # prev.result.metadata.request_id
        /\ result.quote = prev.result.quote

----------------------------------------------------------------------------
(* Properties of DataFetcher.get_multiple_quotes, checked under SpecBatch *)

\* the (Quote, metadata) pairs of the calls of a trace that returned, in order
RECURSIVE Successes(_)
Successes(trace) ==
    IF trace = <<>> THEN <<>>
    ELSE LET r == Head(trace).result
         IN (IF r.kind = "return" THEN <<(<<r.quote, r.metadata>>)>> ELSE <<>>)
            \o Successes(Tail(trace))

\* C10: get_multiple_quotes calls get_quote once per input entry, in input
\* order, goes on after an entry that failed (with whatever error), and
\* returns exactly the results of the entries whose get_quote returned, in
\* input order; a failed entry is absent from the result.
C10_BatchResults ==
    /\ caller = "batch" =>
           /\ mq_i \in 1..Len(mq_tickers)
           /\ ticker = mq_tickers[mq_i]
           /\ Len(mq_trace) = mq_i - 1
    /\ \A i \in DOMAIN mq_trace :
           /\ mq_trace[i].ticker = mq_tickers[i]
           /\ mq_trace[i].result.kind \in {"return", "raise"}
    /\ pc = "mq_done" =>
           /\ Len(mq_trace) = Len(mq_tickers)
           /\ mq_result = Successes(mq_trace)
           /\ \A i \in DOMAIN mq_result : mq_result[i][2].success

C10_Witness ==
    /\ pc = "mq_done"
    /\ Len(mq_tickers) = 2
    /\ mq_trace[1].result.kind = "raise"
    /\ mq_trace[2].result.kind = "return"
    /\ Len(mq_result) = 1
    /\ mq_result[1][1].ticker = upper(mq_tickers[2])

----------------------------------------------------------------------------
(* Properties of DataFetcher.get_history, checked under SpecHistory *)

HistoryCalled == history.outcome # "none"

\* C11: a get_history call has invoked the provider's get_history exactly
\* once and nothing else, has left the scraper's selector list as it was, and
\* when the provider failed it has failed with the provider's error as it is
\* (never with the terminal all-sources-failed error).
C11_HistoryNoFallback ==
    HistoryCalled =>
        /\ history.calls = <<"provider.get_history">>
        /\ price_selectors = history.selectors_before
        /\ calls = <<>>
        /\ history.outcome = history.provider
        /\ history.provider # "ok" =>
               /\ history.outcome \in {"YFinanceError", "ZeroDivisionError"}
               /\ history.bars = 0

C11_Witness ==
    /\ HistoryCalled
    /\ history.provider = "YFinanceError"
    /\ history.outcome = "YFinanceError"
    /\ Head(price_selectors) \in SuggestedSelectors

\* C12: the provider is queried with (start, end) and no period when both
\* dates are given, with start alone when only start is given, and with the
\* period alone in every other case, also when only end is given.
C12_HistoryQuery ==
    (HistoryCalled /\ history.provider # "ZeroDivisionError") =>
        LET a == history.args
            q == history.query
        IN /\ (a.start # None /\ a.end # None) =>
                  q = [start |-> a.start, end |-> a.end, period |-> None]
           /\ (a.start # None /\ a.end = None) =>
                  q = [start |-> a.start, end |-> None, period |-> None]
           /\ a.start = None =>
                  q = [start |-> None, end |-> None, period |-> a.period]

C12_Witness ==
    /\ HistoryCalled
    /\ history.args.start = None
    /\ history.args.end \in Dates
    /\ history.query = [start |-> None, end |-> None, period |-> history.args.period]

----------------------------------------------------------------------------
(* Properties of the leaf clients, checked under SpecLeaf *)

\* C13: on each leaf client the request start times recorded by two
\* consecutive calls (get_latest_quote, get_history; fetch_html) are at least
\* 1 / rate_limit_requests_per_second apart, whatever way the earlier call
\* ended, and the first call on a client has not slept.
C13_RateLimit ==
    \A c \in Clients :
        /\ \A i \in DOMAIN starts[c] : starts[c][i].first => starts[c][i].slept = 0
        /\ (settings.rate_limit > 0 /\ Len(starts[c]) = 2) =>
               starts[c][2].time - starts[c][1].time >= min_interval

C13_Witness ==
    /\ settings.rate_limit > 0
    /\ Len(starts["yfinance"]) = 2
    /\ starts["yfinance"][1].first
    /\ ~starts["yfinance"][1].ok
    /\ starts["yfinance"][2].slept > 0
    /\ starts["yfinance"][2].time - starts["yfinance"][1].time = min_interval

LeafFailed == leaf.outcome \notin {"none", "running", "ok"}

\* C14: a leaf call whose underlying request failed with a connection or
\* timeout error has been re-attempted, and has reported the failure only
\* after the three attempts.
C14_TransientRetried ==
    (LeafFailed /\ leaf.requests # <<>>
        /\ leaf.requests[Len(leaf.requests)] \in Transient[leaf.client]) =>
        /\ leaf.attempt = stop_after_attempt
        /\ Len(leaf.requests) = stop_after_attempt

----------------------------------------------------------------------------
(* Properties of core/models.py, checked under SpecQuote *)

IsNegative(opt) == opt # Null /\ opt[1] < 0

\* C17: every Quote constructed has price >= 0, volume null or >= 0 and
\* market_cap null or >= 0, and a construction with a negative price, volume
\* or market_cap has been rejected with a validation error.
C17_QuoteConstraints ==
    /\ quote_out.kind = "Quote" =>
           /\ quote_out.quote.price >= 0
           /\ ~IsNegative(quote_out.quote.volume)
           /\ ~IsNegative(quote_out.quote.market_cap)
    /\ (quote_out.kind # "none"
           /\ (quote_in.price < 0 \/ IsNegative(quote_in.volume)
                  \/ IsNegative(quote_in.market_cap))) =>
           quote_out.kind = "ValidationError"

----------------------------------------------------------------------------
(* Properties of app/api.py, checked under SpecRest *)

Protected == {"/quote", "/history", "/batch", "/save"}

Configured == Truthy(API_KEY)

\* C18: with an API key configured, a request to a protected endpoint has
\* reached the data fetcher only with an X-API-Key equal to the key, and a
\* request with a missing or different key has got 401 without a data-fetcher
\* call; with no key configured no request has got 401; GET /health has got
\* 200 in both configurations, with or without a key.
C18_ApiKey ==
    /\ (request.endpoint \in Protected /\ Configured) =>
           /\ fetcher_calls # <<>> => request.key = API_KEY
           /\ request.key # API_KEY =>
                  (response.status = 401 /\ fetcher_calls = <<>>)
           /\ request.key = API_KEY => response.status # 401
    /\ (request.endpoint \in Protected /\ ~Configured) => response.status # 401
    /\ request.endpoint = "/health" => response.status = 200

C18_Witness ==
    /\ Configured
    /\ request.endpoint = "/batch"
    /\ request.key = API_KEY
    /\ response.status = 200
    /\ fetcher_calls # <<>>

\* a ticker as the data fetcher should get it: 1 to 10 characters, each an
\* upper-case letter, a digit, a dot or a hyphen
WellFormedTicker(t) ==
    /\ Len(t) \in 1..10
    /\ \A i \in DOMAIN t : t[i] \in Range(UpperLetters) \cup Range(Digits) \cup {".", "-"}

\* a ticker of a request that is not 1 to 10 letters, digits, dots or hyphens
BadTicker(v) ==
    ~(Len(v) \in 1..10 /\ \A i \in DOMAIN v : v[i] \in TickerChars)

\* the request breaks a rule on tickers, batch size or period
RequestViolates ==
    \/ request.endpoint \in {"/quote", "/save", "/history"} /\ BadTicker(request.body.ticker)
    \/ request.endpoint = "/history" /\ request.body.period \notin PeriodEnum \cup {None}
    \/ /\ request.endpoint = "/batch"
       /\ \/ Len(request.body.tickers) \notin 1..50
          \/ \E i \in DOMAIN request.body.tickers :
                 BadTicker(str_strip(request.body.tickers[i]))

Admitted == verify_api_key(request.key)

\* C19: every ticker the REST layer has passed to the data fetcher is 1 to
\* 10 upper-cased letters, digits, dots or hyphens, a batch passed has 1 to 50
\* tickers, a period passed is one of the tokens; and an admitted request
\* that breaks one of these rules has got 422 without a data-fetcher call.
C19_ValidatedInput ==
    /\ \A i \in DOMAIN fetcher_calls :
           LET c == fetcher_calls[i]
           IN /\ c.method \in {"get_quote", "get_history"} => WellFormedTicker(c.args.ticker)
              /\ c.method = "get_history" => c.args.period \in PeriodEnum
              /\ c.method = "get_multiple_quotes" =>
                     /\ Len(c.args.tickers) \in 1..50
                     /\ \A j \in DOMAIN c.args.tickers :
                            WellFormedTicker(c.args.tickers[j])
    /\ (request.endpoint \in Protected /\ Admitted /\ RequestViolates) =>
           (response.status = 422 /\ fetcher_calls = <<>>)

\* a start or end value that is given and is no valid YYYY-MM-DD date
BadDate(v) == v # Absent /\ ~strptime_ok(v)

\* C20: an admitted POST /history whose start or end is not a valid date in
\* YYYY-MM-DD format has got 422 without a data-fetcher call.
C20_InvalidDateRejected ==
    (request.endpoint = "/history" /\ Admitted
        /\ (BadDate(request.body.start) \/ BadDate(request.body.end))) =>
        (response.status = 422 /\ fetcher_calls = <<>>)

\* C21: the response to a POST /batch request accounts for every requested
\* entry: success_count is the number of quotes returned, every requested
\* ticker whose fetch failed is in failed_tickers, and success_count plus the
\* length of failed_tickers is the number of requested tickers.
C21_BatchAccounting ==
    (request.endpoint = "/batch" /\ response.status = 200) =>
        LET c == fetcher_calls[1]
            ts == c.args.tickers
        IN /\ response.success_count = Len(response.quotes)
           /\ \A i \in DOMAIN ts : ~c.ans[i] => ts[i] \in Range(response.failed_tickers)
           /\ response.success_count + Len(response.failed_tickers) = Len(ts)

----------------------------------------------------------------------------
(* Further properties of DataFetcher.get_quote, checked under Spec and SpecLive *)

\* the number of leaf calls named name made by the current get_quote call
CallCount(name) == Cardinality({i \in DOMAIN calls : calls[i].call = name})

FirstScraperCall(i) ==
    /\ IsCall(i, ScraperQuote)
    /\ \A j \in 1..(i - 1) : ~IsCall(j, ScraperQuote)

\* C22: within a get_quote call the provider call, if any, is the first leaf
\* call; the first scraper get_quote comes directly after a failed provider
\* call, or first when the provider is disabled; suggest_selectors comes
\* directly after a retrieved snippet that followed a failed scraper attempt;
\* and a provider or scraper call that returned a quote is the last leaf call
\* of the request, which has returned.
C22_PriorityOrder ==
    \A i \in DOMAIN calls :
        /\ IsCall(i, Provider) => (i = 1 /\ settings.use_yfinance)
        /\ FirstScraperCall(i) =>
               IF settings.use_yfinance
               THEN i = 2 /\ IsCall(1, Provider) /\ ~Ok(1)
               ELSE i = 1
        /\ IsCall(i, Assistant) =>
               /\ i >= 3
               /\ IsCall(i - 1, ScraperSnippet) /\ Ok(i - 1)
               /\ IsCall(i - 2, ScraperQuote) /\ ~Ok(i - 2)
        /\ (calls[i].call \in {Provider, ScraperQuote} /\ Ok(i)) =>
               /\ i = Len(calls)
               /\ pc = "done"
               /\ result.kind = "return"

C22_Witness ==
    /\ pc = "done"
    /\ Len(calls) = 5
    /\ IsCall(1, Provider) /\ ~Ok(1)
    /\ IsCall(2, ScraperQuote) /\ ~Ok(2)
    /\ IsCall(3, ScraperSnippet) /\ Ok(3)
    /\ IsCall(4, Assistant) /\ Ok(4)
    /\ IsCall(5, ScraperQuote) /\ Ok(5)

Running == pc \in {"provider", "scrape1", "snippet", "suggest", "scrape2", "fail"}

LeafCallBounds ==
    /\ CallCount(Provider) <= 1
    /\ CallCount(ScraperSnippet) <= 1
    /\ CallCount(Assistant) <= 1
    /\ CallCount(ScraperQuote) <= 2
    /\ CallCount(ScraperQuote) = 2 =>
           /\ IsCall(Len(calls), ScraperQuote)
           /\ IsCall(Len(calls) - 1, Assistant)

\* C23: a get_quote call makes at most one provider call, one snippet call,
\* one assistant call and two scraper get_quote calls, the second one directly
\* after the assistant call; and every call that has started ends (it returns
\* or raises).
C23_Terminates ==
    /\ []LeafCallBounds
    /\ Running ~> (pc = "done")

C23_Witness ==
    /\ pc = "done"
    /\ CallCount(Provider) = 1
    /\ CallCount(ScraperSnippet) = 1
    /\ CallCount(Assistant) = 1
    /\ CallCount(ScraperQuote) = 2
    /\ Terminal

\* C24: with use_yfinance off no provider call is made; with
\* use_html_fallback off neither the scraper nor the assistant is called and
\* the selector list stays as constructed; with both off a get_quote call
\* makes no leaf call and ends with the terminal error.
C24_FlagsGate ==
    /\ ~settings.use_yfinance => Provider \notin CallNames
    /\ ~settings.use_html_fallback =>
           /\ CallNames \cap {ScraperQuote, ScraperSnippet, Assistant} = {}
           /\ price_selectors = PRICE_SELECTORS
    /\ (~settings.use_yfinance /\ ~settings.use_html_fallback) =>
           /\ calls = <<>>
           /\ pc = "done" => Terminal

C24_Witness ==
    /\ ~settings.use_yfinance
    /\ ~settings.use_html_fallback
    /\ settings.use_gemini_assistant /\ settings.gemini_api_key
    /\ pc = "done"
    /\ Terminal

\* The first scraper attempt of the finished call failed and the repair did
\* not get as far as a suggestion: no assistant at hand, or the snippet
\* retrieval or suggest_selectors failed.
RepairSkipped ==
    /\ pc = "done"
    /\ \E i \in DOMAIN calls : FirstScraperCall(i) /\ ~Ok(i)
    /\ \/ ScraperSnippet \notin CallNames
       \/ \E i \in DOMAIN calls : IsCall(i, ScraperSnippet) /\ ~Ok(i)
       \/ \E i \in DOMAIN calls : IsCall(i, Assistant) /\ ~Ok(i)

\* C25: when the repair is skipped, the call has installed no selector, has
\* made a single scraper get_quote and has ended with the terminal error; and
\* with use_gemini_assistant off no call reaches the assistant.
C25_RepairSkipped ==
    /\ RepairSkipped =>
           /\ ~installed
           /\ selectors = None
           /\ CallCount(ScraperQuote) = 1
           /\ Terminal
    /\ ~settings.use_gemini_assistant =>
           CallNames \cap {ScraperSnippet, Assistant} = {}

C25_Witness ==
    /\ RepairSkipped
    /\ \E i \in DOMAIN calls : IsCall(i, Assistant) /\ ~Ok(i)
    /\ Terminal

\* a is b with some entries left out: the entries of a are in b, in a's order
RECURSIVE IsSubseq(_, _)
IsSubseq(a, b) ==
    IF a = <<>> THEN TRUE
    ELSE IF b = <<>> THEN FALSE
    ELSE IF Head(a) = Head(b) THEN IsSubseq(Tail(a), Tail(b))
    ELSE IsSubseq(a, Tail(b))

\* the default selectors are the last entries of the list, in their order
DefaultsLast ==
    /\ Len(price_selectors) >= Len(PRICE_SELECTORS)
    /\ SubSeq(price_selectors, Len(price_selectors) - Len(PRICE_SELECTORS) + 1,
              Len(price_selectors)) = PRICE_SELECTORS

\* C28: no step removes or reorders selectors: the list before a step is the
\* list after it with entries left out; the default selectors stay the last
\* entries, so that every installed selector is ahead of them; and the selector
\* a call has installed is the first of the list for the rest of that call,
\* also when its re-attempt fails and the call ends with the terminal error.
C28_SelectorsKept ==
    /\ [][IsSubseq(price_selectors, price_selectors')]_vars
    /\ []DefaultsLast
    /\ []((installed /\ pc \in {"scrape2", "fail", "done"}) =>
              Head(price_selectors) = selectors)

C28_Witness ==
    /\ pc = "done"
    /\ Terminal
    /\ installed
    /\ IsCall(Len(calls), ScraperQuote) /\ ~Ok(Len(calls))
    /\ Head(price_selectors) = selectors
    /\ Len(price_selectors) = Len(PRICE_SELECTORS) + 2

----------------------------------------------------------------------------
(* Further properties of app/api.py, checked under SpecRest *)

----------------------------------------------------------------------------
(* Properties of GeminiClient.generate_text, checked under SpecGemini *)

Failed(i) == ~gives_text(gemini.requests[i])

\* the requests and sleeps of the generate_text call so far are in order:
\* at most max_retries requests, none after one that gave a text, and one
\* sleep after each failed request except the max_retries-th
GenerateBounds ==
    /\ Len(gemini.requests) <= gemini.max_retries
    /\ \A i \in 1..(Len(gemini.requests) - 1) : Failed(i)
    /\ \A i \in DOMAIN gemini.requests :
           (\E j \in DOMAIN gemini.sleeps : gemini.sleeps[j].after = i)
               <=> (Failed(i) /\ i < gemini.max_retries)
    /\ Len(gemini.sleeps) <= Len(gemini.requests)

GenerateEnded ==
    gemini.pc = "done" =>
        /\ gemini.result \in {"text", "GeminiError"}
        /\ gemini.result = "text" =>
               /\ gemini.requests # <<>>
               /\ ~Failed(Len(gemini.requests))
        /\ gemini.result = "GeminiError" =>
               /\ \A i \in DOMAIN gemini.requests : Failed(i)
               /\ Len(gemini.requests) \in {0, gemini.max_retries}
        /\ (~settings.use_gemini_assistant \/ ~settings.gemini_api_key) =>
               /\ gemini.result = "GeminiError"
               /\ gemini.requests = <<>>

\* C29: a generate_text call issues at most max_retries requests, returns the
\* text of the first request that succeeds, sleeps after each failed request
\* but the last, raises GeminiError when max_retries requests have failed,
\* raises GeminiError without a request when the assistant is disabled or no
\* key is set, and always ends.
C29_GenerateText ==
    /\ []GenerateBounds
    /\ []GenerateEnded
    /\ (gemini.pc = "attempt") ~> (gemini.pc = "done")

C29_Witness ==
    /\ gemini.pc = "done"
    /\ gemini.max_retries = default_max_retries
    /\ Len(gemini.requests) = default_max_retries
    /\ Len(gemini.sleeps) = default_max_retries - 1
    /\ gemini.result = "GeminiError"

----------------------------------------------------------------------------
(* Properties of YahooHTMLScraper.update_selectors, checked under             *)
(* SpecSelectors (calls one after another) and SpecThreads (two threads)      *)

\* how often selector s is in the list sels
Count(s, sels) == Cardinality({i \in DOMAIN sels : sels[i] = s})

NoDuplicates(sels) == \A i, j \in DOMAIN sels : sels[i] = sels[j] => i = j

LastCall == threads["T1"]

\* C26: with update_selectors called by one caller, one call after another,
\* on the list of the three default selectors, no selector is twice in the
\* list, and a call with an empty or None selector has left the list as it
\* found it.
C26_NoDuplicateSelectors ==
    /\ NoDuplicates(price_selectors)
    /\ (LastCall.pc = "done" /\ ~Truthy(LastCall.new_price_selector)) =>
           price_selectors = LastCall.before

C26_Witness ==
    /\ LastCall.pc = "done"
    /\ LastCall.new_price_selector = ""
    /\ price_selectors = LastCall.before
    /\ Len(price_selectors) = Len(PRICE_SELECTORS) + 2

\* C27: with two threads inside update_selectors a selector can get into the
\* list twice, and it does so only when both threads have found it absent
\* before either has inserted it; it is never there more often than there are
\* threads.
C27_DuplicateByRace ==
    \A s \in AllSelectors :
        /\ Count(s, price_selectors) <= Cardinality(ThreadIds)
        /\ Count(s, price_selectors) > 1 => s \in raced

C27_Witness ==
    \E s \in SuggestedSelectors :
        /\ \A t \in ThreadIds :
               threads[t].pc = "done" /\ threads[t].new_price_selector = s
        /\ s \in raced
        /\ Count(s, price_selectors) = 2
        /\ SubSeq(price_selectors, 1, 2) = <<s, s>>

====
